---- MODULE Spec2Model ----
(***************************************************************************)
(* A model of GithubClient (src/github/client.ts, here src/unnamed/        *)
(* part_000): the request gateway handleRequest, the search diagnostics    *)
(* and the tool handlers registered by registerGithubTools.                *)
(*                                                                         *)
(* Text is a sequence of atoms (TLA+ strings): an atom stands for a piece  *)
(* of text that the code never looks inside, and String.includes is a      *)
(* search for a contiguous run of atoms.  Patch text, whose length         *)
(* matters, is a sequence of runs [c, n]: n copies of the character c.     *)
(* An optional value is a sequence of length 0 (absent) or 1.              *)
(***************************************************************************)
EXTENDS Integers, Sequences, FiniteSets, TLC

VARIABLES
    config,         \* GithubConfig: githubToken, owner, repo (read-only)
    inv,            \* number of tool invocations started so far
    tool,           \* the tool handler of the current invocation
    args,           \* its (defaulted) arguments
    pc,             \* where the handler is suspended (which await)
    inflight,       \* requests dispatched to the remote and not answered
    sent,           \* requests dispatched by the current invocation, in order
    replies,        \* how the remote answered them: [req, error, at], in order
    outcome,        \* what the invocation delivered to the caller
    searchResults,  \* searchFiles/searchCode: the search response
    repoInfo,       \* diagnostics: the repos.get response
    diagRuns,       \* number of runSearchDiagnostics calls of the invocation
    diagnostics,    \* the value runSearchDiagnostics returned
    commits,        \* getCommitHistory: the listCommits response
    detailed        \* getCommitHistory: sha -> settled getCommit result

vars == <<config, inv, tool, args, pc, inflight, sent, replies, outcome,
          searchResults, repoInfo, diagRuns, diagnostics, commits, detailed>>

----------------------------------------------------------------------------
(* Bounds of the model *)

MaxInvocations == 1
MaxListed == 2
MaxMatches == 2
PatchOver == 2

----------------------------------------------------------------------------
(* Text *)

None == <<>>
Some(x) == <<x>>

\* String.prototype.includes on atom sequences
Includes(s, p) ==
    \E i \in 0..(Len(s) - Len(p)) : SubSeq(s, i + 1, i + Len(p)) = p

\* JavaScript truthiness of a string: the empty string is falsy
Truthy(s) == Len(s) > 0

\* a || b on strings
OrElse(s, d) == IF Truthy(s) THEN s ELSE d

RECURSIVE RunsLen(_)
\* String.prototype.length of a patch text
RunsLen(r) == IF r = <<>> THEN 0 ELSE Head(r).n + RunsLen(Tail(r))

RECURSIVE RunsPrefix(_, _)
\* String.prototype.substring(0, k) of a patch text
RunsPrefix(r, k) ==
    IF k <= 0 \/ r = <<>> THEN <<>>
    ELSE IF Head(r).n <= k
         THEN <<Head(r)>> \o RunsPrefix(Tail(r), k - Head(r).n)
         ELSE <<[c |-> Head(r).c, n |-> k]>>

RECURSIVE RunsCharAt(_, _)
\* the i-th character (1-based) of a patch text, "" past its end
RunsCharAt(r, i) ==
    IF r = <<>> THEN ""
    ELSE IF i <= Head(r).n THEN Head(r).c
         ELSE RunsCharAt(Tail(r), i - Head(r).n)

----------------------------------------------------------------------------
(* Inputs: what the environment may hand to the program *)

Tokens == {<<>>, <<"ghp_token">>}
Owners == {<<>>, <<"acme">>, <<"rate limit">>}
Repos == {<<>>, <<"vault">>}

\* messages of the errors the Octokit client throws; two of them hold more
\* than one of the texts that the search tools look for
RemoteMessages ==
    { <<"validation failed">>,
      <<"validation failed", ": 403 ", "Forbidden", ", secondary ", "rate limit">>,
      <<"403 ", "Forbidden", ": API ", "rate limit", " exceeded">>,
      <<"Forbidden">>,
      <<"401", " Bad credentials">>,
      <<"Not Found">> }

FilePaths == {<<"notes/okr.md">>}
\* the empty query, a word, two words around a space, two words around a tab,
\* and a query that uses search qualifiers of its own
Queries ==
    { <<>>, <<"notes">>, <<"OKR", " ", "2025">>, <<"OKR", "\t", "2025">>,
      <<"path:*.md", " ", "extension:md">> }
SearchModes == {"filename", "path", "content", "all"}
IssueQueries == {<<"todo">>}

NoArgs ==
    [filePath |-> <<>>, query |-> <<>>, searchIn |-> "all", language |-> None,
     page |-> 0, perPage |-> 0, days |-> 0, includeDiffs |-> FALSE,
     author |-> None, maxCommits |-> 0]

----------------------------------------------------------------------------
(* Requests and results *)

\* one call of an Octokit endpoint; i is the invocation that made it
Request(i, api, q, page, per_page, ref) ==
    [inv |-> i, api |-> api, q |-> q, page |-> page, per_page |-> per_page,
     ref |-> ref]

NoOutcome == [status |-> "none", text |-> <<>>, blocks |-> <<>>]
\* the handler returned {content: [{type: "text", text}]}
Report(text) == [status |-> "report", text |-> text, blocks |-> <<>>]
\* the error handed back as the text of a returned report
Failure_returned(message) == Report(message)

\* the handler threw new Error(message)
Failure(message) == [status |-> "failure", text |-> message, blocks |-> <<>>]

NoSearchResults == [total_count |-> 0, items |-> <<>>]
NoRepoInfo == [size |-> 0, private |-> FALSE, default_branch |-> <<>>]
NoDiagnostics ==
    [diagnosticError |-> None, repoSize |-> None, repoSizeGB |-> None,
     isPrivate |-> None, defaultBranch |-> None, basicSearchWorks |-> None,
     filesFound |-> None, repoIndexed |-> None, isLarge |-> None]

----------------------------------------------------------------------------
(* GithubClient.checkConfig and GithubClient.handleRequest *)

\* checkConfig forgetting the repository name
checkConfigThrows_noRepo ==
    \/ ~Truthy(config.githubToken)
    \/ ~Truthy(config.owner)

\* the condition under which checkConfig throws
checkConfigThrows ==
    \/ ~Truthy(config.githubToken)
    \/ ~Truthy(config.owner)
    \/ ~Truthy(config.repo)

\* the message of the error checkConfig throws
checkConfigMessage ==
    <<"GitHub configuration incomplete. Please set GITHUB_TOKEN, GITHUB_OWNER, and GITHUB_REPO environment variables. Current config: token=">>
    \o (IF Truthy(config.githubToken) THEN <<"set">> ELSE <<"missing">>)
    \o <<", owner=">> \o OrElse(config.owner, <<"missing">>)
    \o <<", repo=">> \o OrElse(config.repo, <<"missing">>)

\* handleRequest rethrowing the error of request() as it is
handleRequestError_raw(message) == message

\* handleRequest, catch: the error thrown for a failed request()
handleRequestError(message) == <<"GitHub API error: ">> \o message

\* handleRequest with the completeness check left out
handleRequest_unchecked(reqs, log, pending) ==
    /\ inflight' = pending \cup {reqs[k] : k \in 1..Len(reqs)}
    /\ sent' = log \o reqs

\* handleRequest up to its await: checkConfig() throws, or request() is
\* called for each of reqs, in order.  log is what the invocation sent
\* before and pending what is still outstanding
handleRequest(reqs, log, pending) ==
    IF checkConfigThrows
    THEN /\ inflight' = pending
         /\ sent' = log
    ELSE /\ inflight' = pending \cup {reqs[k] : k \in 1..Len(reqs)}
         /\ sent' = log \o reqs

\* the repository scope qualifier repo:owner/repo
repoQualifier == <<"repo:">> \o config.owner \o <<"/">> \o config.repo

----------------------------------------------------------------------------
(* The tool surface: a handler starts when the server receives a call *)

CanInvoke == pc \in {"idle", "done"} /\ inv < MaxInvocations

\* the state of a handler that has just been entered
Enter(name, a) ==
    /\ inv' = inv + 1
    /\ tool' = name
    /\ args' = a
    /\ replies' = <<>>
    /\ searchResults' = NoSearchResults
    /\ repoInfo' = NoRepoInfo
    /\ diagRuns' = 0
    /\ diagnostics' = NoDiagnostics
    /\ commits' = <<>>
    /\ detailed' = <<>>
    /\ UNCHANGED config

\* the remote answers req of the current invocation with data (error = None)
\* or with an error of the given message; at is the number of calls the
\* invocation had dispatched when the answer arrived
Reply(req, error) ==
    replies' = Append(replies, [req |-> req, error |-> error, at |-> Len(sent)])

\* a step that calls nothing: req is no longer outstanding
Settled(req) == inflight' = inflight \ {req} /\ sent' = sent

Locals == <<searchResults, repoInfo, diagRuns, diagnostics, commits, detailed>>

----------------------------------------------------------------------------
(* getFileContents *)

\* the data of a getContent response: raw text, or None for any other shape
FileData == {Some(<<"# OKR 2025">>), None}

getFileContents ==
    /\ CanInvoke
    /\ \E filePath \in FilePaths :
         LET req == Request(inv + 1, "repos.getContent", filePath, None, None, None)
         IN /\ Enter("getFileContents", [NoArgs EXCEPT !.filePath = filePath])
            /\ handleRequest(<<req>>, <<>>, inflight)
            /\ IF checkConfigThrows
               THEN pc' = "done" /\ outcome' = Failure(checkConfigMessage)
               ELSE pc' = "getContent" /\ outcome' = NoOutcome

\* the getContent call settles: raw text, another shape, or an error
getFileContents_getContent ==
    /\ pc = "getContent"
    /\ \E req \in inflight :
         /\ req.inv = inv /\ req.api = "repos.getContent"
         /\ pc' = "done"
         /\ \/ \E m \in RemoteMessages :
                 /\ Reply(req, Some(m)) /\ Settled(req)
                 /\ outcome' = Failure(handleRequestError(m))
            \/ \E fileContent \in FileData :
                 /\ Reply(req, None) /\ Settled(req)
                 /\ outcome' =
                     IF fileContent = None
                     THEN Failure(<<"Received unexpected content format from GitHub API.">>)
                     ELSE Report(fileContent[1])
    /\ UNCHANGED <<config, inv, tool, args, Locals>>

----------------------------------------------------------------------------
(* searchIssues *)

RECURSIVE formatIssues(_)
\* the markdown list of the n items of the response, joined by newlines
formatIssues(n) ==
    IF n = 0 THEN <<>>
    ELSE formatIssues(n - 1) \o (IF n > 1 THEN <<"\n">> ELSE <<>>)
         \o <<"- #", ToString(n), " ", "title", " (", "html_url", ")">>

searchIssues ==
    /\ CanInvoke
    /\ \E query \in IssueQueries :
         LET qualifiedQuery == query \o <<" ", "is:issue", " ">> \o repoQualifier
             req == Request(inv + 1, "search.issuesAndPullRequests",
                            qualifiedQuery, None, None, None)
         IN /\ Enter("searchIssues", [NoArgs EXCEPT !.query = query])
            /\ handleRequest(<<req>>, <<>>, inflight)
            /\ IF checkConfigThrows
               THEN pc' = "done" /\ outcome' = Failure(checkConfigMessage)
               ELSE pc' = "issues" /\ outcome' = NoOutcome

searchIssues_search ==
    /\ pc = "issues"
    /\ \E req \in inflight :
         /\ req.inv = inv /\ req.api = "search.issuesAndPullRequests"
         /\ pc' = "done"
         /\ \/ \E m \in RemoteMessages :
                 /\ Reply(req, Some(m)) /\ Settled(req)
                 /\ outcome' = Failure(handleRequestError(m))
            \/ \E n \in 0..MaxMatches :
                 /\ Reply(req, None) /\ Settled(req)
                 /\ outcome' = Report(<<"Found ", ToString(n), " issues:\n">>
                                      \o formatIssues(n))
    /\ UNCHANGED <<config, inv, tool, args, Locals>>

----------------------------------------------------------------------------
(* Numbers *)

KBPerGB == 1024 * 1024

\* repoInfo.size / (1024 * 1024): an exact quotient (the divisor is a power
\* of two), kept as numerator and denominator
SizeGB(sizeKB) == [num |-> sizeKB, den |-> KBPerGB]

\* r > k and r <= k for a quotient r and an integer k
QGreater(r, k) == r.num > k * r.den
QAtMost(r, k) == r.num <= k * r.den

Min(a, b) == IF a < b THEN a ELSE b

Pow10(d) == IF d = 2 THEN 100 ELSE 1000

\* the d digits of f, zero-padded on the left (d is 2 or 3)
Digits(f, d) ==
    (IF d = 3 THEN <<ToString(f \div 100)>> ELSE <<>>)
    \o <<ToString((f \div 10) % 10), ToString(f % 10)>>

\* Number.prototype.toFixed(d) of a non-negative quotient, d in {2, 3}
ToFixed(r, d) ==
    LET whole == r.num \div r.den
        frac == ((r.num % r.den) * Pow10(d) * 2 + r.den) \div (2 * r.den)
    IN IF frac = Pow10(d)
       THEN <<ToString(whole + 1), ".">> \o Digits(0, d)
       ELSE <<ToString(whole), ".">> \o Digits(frac, d)

----------------------------------------------------------------------------
(* What the remote may answer *)

isLargeLimitGB == 50
MAX_INDEXED_SIZE_GB == 50

\* repository sizes in KB, around the 50 GB line
RepoSizes ==
    {1, isLargeLimitGB * KBPerGB - 1, isLargeLimitGB * KBPerGB,
     isLargeLimitGB * KBPerGB + 1, 60 * KBPerGB}

RepoInfos ==
    [size : RepoSizes, private : BOOLEAN, default_branch : {<<"main">>}]

\* the k-th item of a code-search response
SearchItem(k) ==
    IF k % 2 = 1
    THEN [name |-> <<"Notes", ".md">>,
          path |-> <<"daily", "/", "Notes", ".md">>]
    ELSE [name |-> <<"plan", ".md">>,
          path |-> <<"OKR", " ", "2025", "/", "plan", ".md">>]

\* a code-search response with n matches in all, perPage of them on a page
SearchData(n, perPage) ==
    [total_count |-> n, items |-> [k \in 1..Min(n, perPage) |-> SearchItem(k)]]

----------------------------------------------------------------------------
(* GithubClient.runSearchDiagnostics: what it returns *)

\* the outer catch losing the error
DiagnosisError_dropped(message) == NoDiagnostics

\* the catch of the outer try: only the error is reported
DiagnosisError(message) ==
    [NoDiagnostics EXCEPT !.diagnosticError = Some(message)]

\* the diagnosis with repoIndexed decided by the count alone, zero included
Diagnosis_countOnly(info, basicSearchWorks, basicSearchCount) ==
    [diagnosticError |-> None,
     repoSize |-> Some(info.size),
     repoSizeGB |-> Some(SizeGB(info.size)),
     isPrivate |-> Some(info.private),
     defaultBranch |-> Some(info.default_branch),
     basicSearchWorks |-> Some(basicSearchWorks),
     filesFound |-> Some(basicSearchCount),
     repoIndexed |-> Some(basicSearchCount >= 0),
     isLarge |-> Some(QGreater(SizeGB(info.size), isLargeLimitGB))]

\* the diagnosis with repoIndexed decided by basicSearchWorks alone
Diagnosis_worksOnly(info, basicSearchWorks, basicSearchCount) ==
    [diagnosticError |-> None,
     repoSize |-> Some(info.size),
     repoSizeGB |-> Some(SizeGB(info.size)),
     isPrivate |-> Some(info.private),
     defaultBranch |-> Some(info.default_branch),
     basicSearchWorks |-> Some(basicSearchWorks),
     filesFound |-> Some(basicSearchCount),
     repoIndexed |-> Some(basicSearchWorks),
     isLarge |-> Some(QGreater(SizeGB(info.size), isLargeLimitGB))]

\* the value returned after both tests
Diagnosis(info, basicSearchWorks, basicSearchCount) ==
    LET repoSizeKB == info.size
        repoSizeGB == SizeGB(repoSizeKB)
        isLarge == QGreater(repoSizeGB, isLargeLimitGB)
    IN [diagnosticError |-> None,
        repoSize |-> Some(repoSizeKB),
        repoSizeGB |-> Some(repoSizeGB),
        isPrivate |-> Some(info.private),
        defaultBranch |-> Some(info.default_branch),
        basicSearchWorks |-> Some(basicSearchWorks),
        filesFound |-> Some(basicSearchCount),
        repoIndexed |-> Some(basicSearchWorks /\ basicSearchCount > 0),
        isLarge |-> Some(isLarge)]

\* the fixed query of the basic search test
BaselineQuery == repoQualifier \o <<" ", "extension:md">>

\* truthiness of an optional string and of an optional boolean
TruthyStr(o) == o # None /\ Truthy(o[1])
TruthyBool(o) == o # None /\ o[1]

----------------------------------------------------------------------------
(* GithubClient.formatNoResultsResponse *)

SearchTips ==
    <<"Search Tips:\n", "- Try simpler or partial search terms">>

\* the not-indexed test made with if in place of else if: an error section
\* is followed by a second section
NoResultsSection_fallThrough(d, query) ==
    (IF TruthyStr(d.diagnosticError)
     THEN <<"Search System Issue: ">> \o d.diagnosticError[1] \o <<"\n\n">>
     ELSE <<>>)
    \o (IF ~TruthyBool(d.repoIndexed)
        THEN <<"Repository May Not Be Indexed", "- New repositories\n", "\nTry:\n">>
        ELSE <<"Search Debug Info:\n", "Possible reasons for no results:\n">>)

\* the guidance section chosen for a diagnosis
NoResultsSection(d, query) ==
    IF TruthyStr(d.diagnosticError)
    THEN <<"Search System Issue: ">> \o d.diagnosticError[1] \o <<"\n\n">>
    ELSE IF ~TruthyBool(d.repoIndexed)
    THEN <<"Repository May Not Be Indexed", "- New repositories\n">>
         \o (IF TruthyBool(d.isLarge)
             THEN <<"- Large repositories (">> \o ToFixed(d.repoSizeGB[1], 2)
                  \o <<" GB exceeds 50 GB limit)\n">>
             ELSE <<>>)
         \o (IF TruthyBool(d.isPrivate)
             THEN <<"- Private repositories with indexing issues\n">>
             ELSE <<>>)
         \o <<"\nTry:\n">>
    ELSE <<"Search Debug Info:\n", "- Repository: ",
           IF TruthyBool(d.isPrivate) THEN "Private" ELSE "Public", " (">>
         \o ToFixed(d.repoSizeGB[1], 3) \o <<" GB)\n", "- Default branch: ">>
         \o d.defaultBranch[1] \o <<" (only branch searchable)\n",
           "- Files in repo: ", ToString(d.filesFound[1]), " found\n",
           "- Search query used: ">> \o query \o <<"\n\n",
           "Possible reasons for no results:\n">>

\* a diagnosis that carries an error thrown on instead of reported
formatNoResultsResponse_throws(d, query, searchIn) ==
    IF TruthyStr(d.diagnosticError) THEN Failure(d.diagnosticError[1])
    ELSE Report(<<"Found 0 files matching \"">> \o query \o <<"\"">>
                \o <<"\n\n">> \o NoResultsSection(d, query) \o SearchTips)

\* the report of a search without results
formatNoResultsResponse(d, query, searchIn) ==
    Report(<<"Found 0 files matching \"">> \o query \o <<"\"">>
           \o (IF searchIn # "all" THEN <<" in ", searchIn>> ELSE <<>>)
           \o <<"\n\n">> \o NoResultsSection(d, query) \o SearchTips)

----------------------------------------------------------------------------
(* searchFiles *)

\* perPage is any number the schema accepts (z.number())
PerPages == {30, 100, 101}

\* query.includes(" ") ? "query" in double quotes : query
filenameTerm(query) ==
    IF Includes(query, <<" ">>) THEN <<"\"">> \o query \o <<"\"">> ELSE query

\* the search string of mode all built without its in:file,path qualifier
qualifiedQueryOf_allBare(query, searchIn) ==
    IF searchIn = "filename"
    THEN <<"filename:">> \o filenameTerm(query) \o <<" ">> \o repoQualifier
    ELSE IF searchIn = "path"
    THEN query \o <<" ", "in:path", " ">> \o repoQualifier
    ELSE query \o <<" ">> \o repoQualifier

\* the search string built from query and searchIn
qualifiedQueryOf(query, searchIn) ==
    IF searchIn = "filename"
    THEN <<"filename:">> \o filenameTerm(query) \o <<" ">> \o repoQualifier
    ELSE IF searchIn = "path"
    THEN query \o <<" ", "in:path", " ">> \o repoQualifier
    ELSE IF searchIn = "content"
    THEN query \o <<" ">> \o repoQualifier
    ELSE query \o <<" ", "in:file,path", " ">> \o repoQualifier

\* the catch around the search call: the message of the error it throws
searchFilesCatch(errorMessage, qualifiedQuery) ==
    IF Includes(errorMessage, <<"validation failed">>)
    THEN <<"GitHub search query invalid: \"">> \o qualifiedQuery
         \o <<"\". Try simpler terms or check syntax.">>
    ELSE IF Includes(errorMessage, <<"rate limit">>)
    THEN <<"GitHub code search rate limit exceeded. Wait a moment and try again.">>
    ELSE IF Includes(errorMessage, <<"Forbidden">>)
            \/ Includes(errorMessage, <<"401">>)
    THEN <<"GitHub API access denied. Check that your token has 'repo' scope for private repositories.">>
    ELSE errorMessage

\* String.prototype.toLowerCase, atom by atom
LowerAtom(a) ==
    CASE a = "OKR" -> "okr"
      [] a = "Notes" -> "notes"
      [] OTHER -> a
ToLowerCase(str) == [k \in 1..Len(str) |-> LowerAtom(str[k])]

\* the reason deduced without toLowerCase
matchReason_caseSensitive(item, query, searchIn) ==
    IF searchIn = "filename" THEN "filename match"
    ELSE IF searchIn = "path" THEN "path match"
    ELSE IF searchIn = "content" THEN "content match"
    ELSE IF Includes(item.name, query) THEN "filename match"
    ELSE IF Includes(item.path, query) THEN "path match"
    ELSE "content match"

\* why an item is said to have matched
matchReason(item, query, searchIn) ==
    IF searchIn = "filename" THEN "filename match"
    ELSE IF searchIn = "path" THEN "path match"
    ELSE IF searchIn = "content" THEN "content match"
    ELSE IF Includes(ToLowerCase(item.name), ToLowerCase(query))
         THEN "filename match"
    ELSE IF Includes(ToLowerCase(item.path), ToLowerCase(query))
         THEN "path match"
    ELSE "content match"

RECURSIVE formattedResults(_, _, _)
\* the list of the items, one line each, joined by newlines
formattedResults(items, query, searchIn) ==
    IF items = <<>> THEN <<>>
    ELSE LET n == Len(items)
             item == items[n]
         IN formattedResults(SubSeq(items, 1, n - 1), query, searchIn)
            \o (IF n > 1 THEN <<"\n">> ELSE <<>>)
            \o <<"- ">> \o item.name \o <<" (">> \o item.path \o <<") ">>
            \o <<matchReason(item, query, searchIn)>>

\* the text returned when the search found something
searchFilesText(results, query, searchIn) ==
    <<"Found ", ToString(results.total_count), " files">>
    \o (IF searchIn # "all" THEN <<" searching in ", searchIn>> ELSE <<>>)
    \o <<":\n\n">> \o formattedResults(results.items, query, searchIn)

\* the test that sends searchFiles into the diagnostics, met by any result
noResults_always(results) == TRUE

\* the test that sends searchFiles into the diagnostics
noResults(results) == results.total_count = 0

searchFiles ==
    /\ CanInvoke
    /\ \E query \in Queries, searchIn \in SearchModes, perPage \in PerPages :
         LET page == 0
             qualifiedQuery == qualifiedQueryOf(query, searchIn)
             req == Request(inv + 1, "search.code", qualifiedQuery,
                            Some(page), Some(perPage), None)
         IN /\ Enter("searchFiles",
                     [NoArgs EXCEPT !.query = query, !.searchIn = searchIn,
                                    !.page = page, !.perPage = perPage])
            /\ handleRequest(<<req>>, <<>>, inflight)
            /\ IF checkConfigThrows
               THEN /\ pc' = "done"
                    /\ outcome' =
                         Failure(searchFilesCatch(checkConfigMessage, qualifiedQuery))
               ELSE pc' = "search" /\ outcome' = NoOutcome

\* the search call settles; on zero results runSearchDiagnostics starts and
\* runs up to its first await
searchFiles_search ==
    /\ pc = "search" /\ tool = "searchFiles"
    /\ \E req \in inflight :
         /\ req.inv = inv /\ req.api = "search.code"
         /\ \/ \E m \in RemoteMessages :
                 /\ Reply(req, Some(m)) /\ Settled(req)
                 /\ pc' = "done"
                 /\ outcome' = Failure(searchFilesCatch(handleRequestError(m), req.q))
                 /\ UNCHANGED Locals
            \/ \E n \in 0..MaxMatches :
                 LET results == SearchData(n, req.per_page[1])
                     get == Request(inv, "repos.get", <<>>, None, None, None)
                 IN /\ Reply(req, None)
                    /\ searchResults' = results
                    /\ IF noResults(results)
                       THEN /\ diagRuns' = diagRuns + 1
                            /\ handleRequest(<<get>>, sent, inflight \ {req})
                            /\ IF checkConfigThrows
                               THEN /\ pc' = "done"
                                    /\ diagnostics' = DiagnosisError(checkConfigMessage)
                                    /\ outcome' = formatNoResultsResponse(
                                           diagnostics', args.query, args.searchIn)
                               ELSE /\ pc' = "diagnostics_repo"
                                    /\ outcome' = NoOutcome
                                    /\ UNCHANGED diagnostics
                       ELSE /\ Settled(req)
                            /\ pc' = "done"
                            /\ outcome' = Report(searchFilesText(results, args.query,
                                                                 args.searchIn))
                            /\ UNCHANGED <<diagRuns, diagnostics>>
                    /\ UNCHANGED <<repoInfo, commits, detailed>>
    /\ UNCHANGED <<config, inv, tool, args>>

\* runSearchDiagnostics, test 1 settles: the repos.get call
runSearchDiagnostics_repo ==
    /\ pc = "diagnostics_repo"
    /\ \E req \in inflight :
         /\ req.inv = inv /\ req.api = "repos.get"
         /\ \/ \E m \in RemoteMessages :
                 /\ Reply(req, Some(m)) /\ Settled(req)
                 /\ diagnostics' = DiagnosisError(handleRequestError(m))
                 /\ pc' = "done"
                 /\ outcome' = formatNoResultsResponse(diagnostics', args.query,
                                                       args.searchIn)
                 /\ UNCHANGED repoInfo
            \/ \E info \in RepoInfos :
                 LET basicTest == Request(inv, "search.code", BaselineQuery,
                                          None, Some(1), None)
                 IN /\ Reply(req, None)
                    /\ repoInfo' = info
                    /\ handleRequest(<<basicTest>>, sent, inflight \ {req})
                    /\ IF checkConfigThrows
                       THEN /\ diagnostics' = Diagnosis(info, FALSE, 0)
                            /\ pc' = "done"
                            /\ outcome' = formatNoResultsResponse(
                                   diagnostics', args.query, args.searchIn)
                       ELSE /\ pc' = "diagnostics_search"
                            /\ outcome' = NoOutcome
                            /\ UNCHANGED diagnostics
    /\ UNCHANGED <<config, inv, tool, args, searchResults, diagRuns, commits,
                   detailed>>

\* runSearchDiagnostics, test 2 settles: the basic search; the diagnosis is
\* returned to searchFiles, which formats and returns it
runSearchDiagnostics_search ==
    /\ pc = "diagnostics_search"
    /\ \E req \in inflight :
         /\ req.inv = inv /\ req.api = "search.code"
         /\ \/ \E m \in RemoteMessages :
                 /\ Reply(req, Some(m))
                 /\ diagnostics' = Diagnosis(repoInfo, FALSE, 0)
            \/ \E n \in 0..MaxMatches :
                 /\ Reply(req, None)
                 /\ diagnostics' = Diagnosis(repoInfo, TRUE,
                                          SearchData(n, req.per_page[1]).total_count)
         /\ Settled(req)
         /\ pc' = "done"
         /\ outcome' = formatNoResultsResponse(diagnostics', args.query,
                                               args.searchIn)
    /\ UNCHANGED <<config, inv, tool, args, searchResults, repoInfo, diagRuns,
                   commits, detailed>>

----------------------------------------------------------------------------
(* searchCode *)

CodeQueries == {<<"TODO">>}
Languages == {None, Some(<<"markdown">>)}
CodePages == {1, 2}
\* perPage is any number the schema accepts (z.number())
CodePerPages == {1, 30, 101}

\* total_count of a code-search response: a few matches, or more than the
\* largest page the remote serves
CodeTotalCounts == (0..MaxMatches) \cup {101}

\* Math.ceil(a / b) for a >= 0 and b > 0
CeilDiv(a, b) == (a + b - 1) \div b

\* the catch with the test for Forbidden and 401 made first
searchCodeCatch_forbiddenFirst(errorMessage, qualifiedQuery) ==
    IF Includes(errorMessage, <<"Forbidden">>)
       \/ Includes(errorMessage, <<"401">>)
    THEN <<"GitHub API access denied. Check that your token has 'repo' scope for private repositories.">>
    ELSE IF Includes(errorMessage, <<"validation failed">>)
    THEN <<"GitHub code search query invalid: \"">> \o qualifiedQuery
         \o <<"\". Try simpler terms or check syntax.">>
    ELSE IF Includes(errorMessage, <<"rate limit">>)
    THEN <<"GitHub code search rate limit exceeded (10 requests/minute). Wait a moment and try again.">>
    ELSE errorMessage

\* the catch around the search call: the message of the error it throws
searchCodeCatch(errorMessage, qualifiedQuery) ==
    IF Includes(errorMessage, <<"validation failed">>)
    THEN <<"GitHub code search query invalid: \"">> \o qualifiedQuery
         \o <<"\". Try simpler terms or check syntax.">>
    ELSE IF Includes(errorMessage, <<"rate limit">>)
    THEN <<"GitHub code search rate limit exceeded (10 requests/minute). Wait a moment and try again.">>
    ELSE IF Includes(errorMessage, <<"Forbidden">>)
            \/ Includes(errorMessage, <<"401">>)
    THEN <<"GitHub API access denied. Check that your token has 'repo' scope for private repositories.">>
    ELSE errorMessage

RECURSIVE formatCodeItems(_)
\* one block of path, URL and relevance per item
formatCodeItems(items) ==
    IF items = <<>> THEN <<>>
    ELSE <<"### ">> \o Head(items).name \o <<"\n", "- Path: ">>
         \o Head(items).path \o <<"\n", "- URL: ", "html_url", "\n",
            "- Relevance: ", "score", "\n\n">>
         \o formatCodeItems(Tail(items))

\* the text returned by searchCode for a search response
searchCodeText(results, query, language, page, perPage) ==
    LET inLanguage == IF TruthyStr(language)
                      THEN <<" in ">> \o language[1] \o <<" files">>
                      ELSE <<>>
        totalPages == CeilDiv(results.total_count, perPage)
    IN IF results.total_count = 0
       THEN <<"No code matches found for \"">> \o query \o <<"\"">>
            \o inLanguage \o <<".\n\n", "Search Tips:\n">>
       ELSE <<"Found ", ToString(results.total_count), " code matches for \"">>
            \o query \o <<"\"">> \o inLanguage \o <<":\n\n">>
            \o (IF totalPages > 1
                THEN <<"Showing page ", ToString(page), " of ",
                       ToString(totalPages), " (", ToString(Len(results.items)),
                       " results on this page)\n\n">>
                ELSE <<>>)
            \o formatCodeItems(results.items)
            \o <<"\n---\n\n", "Next Steps:\n">>
            \o (IF totalPages > page
                THEN <<"- Use page: ", ToString(page + 1), " to see more results\n">>
                ELSE <<>>)
            \o <<"- Refine your search query for more specific matches\n">>

searchCode ==
    /\ CanInvoke
    /\ \E query \in CodeQueries, language \in Languages, page \in CodePages,
          perPage \in CodePerPages :
         LET qualifiedQuery ==
                 query \o <<" ">> \o repoQualifier
                 \o (IF TruthyStr(language)
                     THEN <<" ", "language:">> \o language[1] ELSE <<>>)
             req == Request(inv + 1, "search.code", qualifiedQuery,
                            Some(page), Some(Min(perPage, 100)), None)
         IN /\ Enter("searchCode",
                     [NoArgs EXCEPT !.query = query, !.language = language,
                                    !.page = page, !.perPage = perPage])
            /\ handleRequest(<<req>>, <<>>, inflight)
            /\ IF checkConfigThrows
               THEN /\ pc' = "done"
                    /\ outcome' =
                         Failure(searchCodeCatch(checkConfigMessage, qualifiedQuery))
               ELSE pc' = "search" /\ outcome' = NoOutcome

searchCode_search ==
    /\ pc = "search" /\ tool = "searchCode"
    /\ \E req \in inflight :
         /\ req.inv = inv /\ req.api = "search.code"
         /\ Settled(req)
         /\ pc' = "done"
         /\ \/ \E m \in RemoteMessages :
                 /\ Reply(req, Some(m))
                 /\ outcome' = Failure(searchCodeCatch(handleRequestError(m), req.q))
                 /\ UNCHANGED searchResults
            \/ \E n \in CodeTotalCounts :
                 /\ Reply(req, None)
                 /\ searchResults' = SearchData(n, req.per_page[1])
                 /\ outcome' = Report(searchCodeText(searchResults', args.query,
                                          args.language, args.page, args.perPage))
    /\ UNCHANGED <<config, inv, tool, args, repoInfo, diagRuns, diagnostics,
                   commits, detailed>>

----------------------------------------------------------------------------
(* getCommitHistory *)

maxPatchLength == 8000

Days == {7}
Authors == {None, Some(<<"alice">>)}
MaxCommitsArgs == {1, 2}

\* a patch text of length len: '+' characters and a final '-'
PatchOf(len) ==
    IF len = 0 THEN <<>>
    ELSE IF len = 1 THEN <<[c |-> "-", n |-> 1]>>
    ELSE <<[c |-> "+", n |-> len - 1], [c |-> "-", n |-> 1]>>

\* file.patch: absent, or a text of one of these lengths
Patches ==
    {None}
    \cup {Some(PatchOf(len)) :
            len \in {0, 1, maxPatchLength, maxPatchLength + 1,
                     maxPatchLength + PatchOver}}

\* commit.files of a getCommit response
FileLists ==
    {<<>>}
    \cup {<<[filename |-> <<"notes/okr.md">>, additions |-> 1, deletions |-> 0,
             patch |-> p]>> : p \in Patches}

\* the k-th commit of the repository; the first two atoms of a sha are its
\* first seven characters
Commit(k) ==
    [sha |-> <<"c0ffee", ToString(k), "0123">>,
     message |-> IF k % 2 = 1 THEN <<"Update notes">>
                 ELSE <<"Add plan", "\n", "details">>,
     author |-> <<"Alice">>]

\* the listCommits responses: distinct commits, newest (highest) first, at
\* most perPage of them
CommitLists(perPage) ==
    {cs \in UNION {[1..n -> 1..MaxListed] : n \in 0..Min(perPage, MaxListed)} :
        \A i, j \in 1..Len(cs) : i < j => cs[i] > cs[j]}

\* commit.sha.substring(0, 7)
shortSha(sha) == SubSeq(sha, 1, 2)

RECURSIVE FirstLine(_)
\* message.split("\n")[0]
FirstLine(message) ==
    IF message = <<>> \/ Head(message) = "\n" THEN <<>>
    ELSE <<Head(message)>> \o FirstLine(Tail(message))

\* the slice that loses its last element
Slice_short(seq, k) == SubSeq(seq, 1, Min(k, Len(seq)) - 1)

\* Array.prototype.slice(0, k)
Slice(seq, k) == SubSeq(seq, 1, Min(k, Len(seq)))

TruncationMarker == [c |-> "\n\n... (diff truncated for readability) ...", n |-> 1]

\* the truncation with >= in place of >
renderPatch_atLimit(patch) ==
    IF RunsLen(patch) >= maxPatchLength
    THEN RunsPrefix(patch, maxPatchLength) \o <<TruncationMarker>>
    ELSE patch

\* the patch as it is written into the diff fence
renderPatch(patch) ==
    IF RunsLen(patch) > maxPatchLength
    THEN RunsPrefix(patch, maxPatchLength) \o <<TruncationMarker>>
    ELSE patch

\* the section of one file: its diff fence, or None for "no diff available"
renderFile(file) ==
    [filename |-> file.filename,
     diff |-> IF TruthyStr(file.patch)
              THEN Some(renderPatch(file.patch[1]))
              ELSE None]

\* the commit line of the heading block
commitHeading(commit, withSha) ==
    <<"## Commit ">> \o shortSha(commit.sha)
    \o (IF withSha THEN <<" (">> \o commit.sha \o <<")">> ELSE <<>>)
    \o <<"\n">> \o FirstLine(commit.message) \o <<"\n", "Author: ">>
    \o commit.author \o <<"\n", "Date: ", "date", "\n", "URL: ",
                          "https://github.com/">>
    \o config.owner \o <<"/">> \o config.repo \o <<"/commit/">> \o commit.sha

\* the block of a detailed commit
detailedBlock(commit) ==
    [sha |-> commit.sha,
     heading |-> commitHeading(commit, TRUE),
     files |-> [k \in 1..Len(commit.files) |->
                  [filename |-> commit.files[k].filename,
                   additions |-> commit.files[k].additions,
                   deletions |-> commit.files[k].deletions]],
     diffs |-> [k \in 1..Len(commit.files) |-> renderFile(commit.files[k])],
     note |-> IF Len(commit.files) > 0 THEN <<>>
              ELSE <<"No file changes detected.\n\n">>]

\* the block of a commit shown without its diffs
summaryBlock(commit) ==
    [sha |-> commit.sha, heading |-> commitHeading(commit, FALSE),
     files |-> <<>>, diffs |-> <<>>, note |-> <<>>]

\* the first line of the report
historyHeader(n, days, author) ==
    <<"Found ", ToString(n), " commits in the last ", ToString(days), " days">>
    \o (IF TruthyStr(author) THEN <<" from ">> \o author[1] ELSE <<>>)
    \o <<":\n\n">>

\* an empty text in place of the report for no commit
noCommitsText_empty(days, author) == <<>>

\* the report for no commit at all
noCommitsText(days, author) ==
    <<"No commits found in the last ", ToString(days), " days since ", "sinceISO">>
    \o (IF TruthyStr(author) THEN <<" from author ">> \o author[1] ELSE <<>>)
    \o <<".">>

\* the report of the commits whose detail did arrive, in place of the error
joinRejected_partial(settled, message) ==
    LET got == SelectSeq(settled, LAMBDA d : d # None)
    IN [status |-> "report",
        text |-> <<"Found ", ToString(Len(got)), " commits">>,
        blocks |-> [i \in 1..Len(got) |-> detailedBlock(got[i][1])]]

\* Promise.all over the getCommit calls rejects with the first error, whatever
\* has settled so far; the handler does not catch it
joinRejected(settled, message) == Failure(handleRequestError(message))

\* the list call with the author filter switched on
listCommitsRequest_byAuthor(i, days, author, maxCommits, page) ==
    Request(i, "repos.listCommits",
            <<"since:", ToString(days)>>
            \o (IF author # None THEN <<"author:">> \o author[1] ELSE <<>>),
            Some(page), Some(maxCommits), None)

\* the listCommits call: owner, repo, since, page and per_page; the author
\* parameter is commented out in the source
listCommitsRequest(i, days, author, maxCommits, page) ==
    Request(i, "repos.listCommits", <<"since:", ToString(days)>>,
            Some(page), Some(maxCommits), None)

\* only the first getCommit call made, the others left for later
detailRequests_serial(fetched) ==
    [k \in 1..Min(1, Len(fetched)) |->
       Request(inv, "repos.getCommit", <<>>, None, None, fetched[k].sha)]

\* the getCommit calls that the map over the sliced list makes, in its order
detailRequests(fetched) ==
    [k \in 1..Len(fetched) |->
       Request(inv, "repos.getCommit", <<>>, None, None, fetched[k].sha)]

\* every result kept at the first index, so that the join never fills up
detailSlot_first(list, ref) == 1

\* the results kept in the order in which the calls settled
detailSlot_arrival(list, ref) ==
    CHOOSE i \in 1..Len(detailed) :
        detailed[i] = None /\ \A j \in 1..(i - 1) : detailed[j] # None

\* Promise.all keeps each result at the index of its promise, which is the
\* index of its commit in the list
detailSlot(list, ref) == CHOOSE i \in 1..Len(list) : list[i].sha = ref

getCommitHistory ==
    /\ CanInvoke
    /\ \E days \in Days, includeDiffs \in BOOLEAN, author \in Authors,
          maxCommits \in MaxCommitsArgs :
         LET page == 0
             req == listCommitsRequest(inv + 1, days, author, maxCommits, page)
         IN /\ Enter("getCommitHistory",
                     [NoArgs EXCEPT !.days = days, !.includeDiffs = includeDiffs,
                                    !.author = author, !.maxCommits = maxCommits,
                                    !.page = page])
            /\ handleRequest(<<req>>, <<>>, inflight)
            /\ IF checkConfigThrows
               THEN pc' = "done" /\ outcome' = Failure(checkConfigMessage)
               ELSE pc' = "listCommits" /\ outcome' = NoOutcome

\* the listCommits call settles; with includeDiffs every getCommit call is
\* made at once, before any of them is awaited
getCommitHistory_listCommits ==
    /\ pc = "listCommits"
    /\ \E req \in inflight :
         /\ req.inv = inv /\ req.api = "repos.listCommits"
         /\ \/ \E m \in RemoteMessages :
                 /\ Reply(req, Some(m)) /\ Settled(req)
                 /\ pc' = "done"
                 /\ outcome' = Failure(handleRequestError(m))
                 /\ UNCHANGED <<commits, detailed>>
            \/ \E list \in CommitLists(req.per_page[1]) :
                 LET cs == [k \in 1..Len(list) |-> Commit(list[k])]
                     fetched == Slice(cs, args.maxCommits)
                     gets == detailRequests(fetched)
                 IN /\ Reply(req, None)
                    /\ commits' = cs
                    /\ IF Len(cs) = 0
                       THEN /\ Settled(req)
                            /\ pc' = "done"
                            /\ outcome' = Report(noCommitsText(args.days, args.author))
                            /\ UNCHANGED detailed
                       ELSE IF args.includeDiffs
                       THEN /\ handleRequest(gets, sent, inflight \ {req})
                            /\ detailed' = [k \in 1..Len(fetched) |-> None]
                            /\ IF checkConfigThrows
                               THEN /\ pc' = "done"
                                    /\ outcome' = Failure(checkConfigMessage)
                               ELSE /\ pc' = "getCommit"
                                    /\ outcome' = NoOutcome
                       ELSE /\ Settled(req)
                            /\ pc' = "done"
                            /\ outcome' =
                                 [status |-> "report",
                                  text |-> historyHeader(Len(cs), args.days, args.author),
                                  blocks |-> [k \in 1..Len(cs) |-> summaryBlock(cs[k])]]
                            /\ UNCHANGED detailed
    /\ UNCHANGED <<config, inv, tool, args, searchResults, repoInfo, diagRuns,
                   diagnostics>>

\* one getCommit call settles while Promise.all is pending: an error rejects
\* the whole join at once; the last success resolves it, in list order
getCommitHistory_getCommit ==
    /\ pc = "getCommit"
    /\ \E req \in inflight :
         /\ req.inv = inv /\ req.api = "repos.getCommit"
         /\ Settled(req)
         /\ \/ \E m \in RemoteMessages :
                 /\ Reply(req, Some(m))
                 /\ pc' = "done"
                 /\ outcome' = joinRejected(detailed, m)
                 /\ UNCHANGED detailed
            \/ \E files \in FileLists :
                 LET k == detailSlot(commits, req.ref)
                     listed == commits[CHOOSE i \in 1..Len(commits) :
                                         commits[i].sha = req.ref]
                     detail == [sha |-> req.ref, message |-> listed.message,
                                author |-> listed.author, files |-> files]
                     all == [detailed EXCEPT ![k] = Some(detail)]
                 IN /\ Reply(req, None)
                    /\ detailed' = all
                    /\ IF \A i \in 1..Len(all) : all[i] # None
                       THEN /\ pc' = "done"
                            /\ outcome' =
                                 [status |-> "report",
                                  text |-> historyHeader(Len(commits), args.days,
                                                         args.author),
                                  blocks |-> [i \in 1..Len(all) |->
                                                detailedBlock(all[i][1])]]
                       ELSE /\ pc' = "getCommit"
                            /\ outcome' = NoOutcome
    /\ UNCHANGED <<config, inv, tool, args, searchResults, repoInfo, diagRuns,
                   diagnostics, commits>>

\* a getCommit call settles after Promise.all was rejected: nothing awaits it
getCommitHistory_abandoned ==
    /\ \E req \in inflight :
         /\ req.api = "repos.getCommit"
         /\ ~(req.inv = inv /\ pc = "getCommit")
         /\ inflight' = inflight \ {req}
    /\ UNCHANGED <<config, inv, tool, args, pc, sent, replies, outcome, Locals>>

----------------------------------------------------------------------------
(* diagnoseSearch *)

\* the report of the outer catch
diagnoseFailedText(message) ==
    <<"Failed to diagnose repository: ">> \o message
    \o <<"\n\nPlease check your GITHUB_TOKEN, GITHUB_OWNER, and GITHUB_REPO configuration.">>

\* the size test with < in place of <=
isWithinSizeLimit_strict(info) ==
    SizeGB(info.size).num < MAX_INDEXED_SIZE_GB * SizeGB(info.size).den

\* repoSizeGB <= MAX_INDEXED_SIZE_GB
isWithinSizeLimit(info) == QAtMost(SizeGB(info.size), MAX_INDEXED_SIZE_GB)

\* the Recommendations section
recommendations(info, searchWorks, searchResultCount) ==
    (IF ~searchWorks /\ info.private
     THEN <<"- Private Repository: Ensure your GitHub token has the 'repo' scope\n">>
     ELSE <<>>)
    \o (IF ~isWithinSizeLimit(info)
        THEN <<"- Large Repository: GitHub's code search doesn't index repositories larger than ~",
               ToString(MAX_INDEXED_SIZE_GB), " GB. Consider:\n",
               "  - Using file path navigation instead of search for specific files\n",
               "  - Splitting your vault into multiple repositories\n",
               "  - Using getFileContents tool with known paths\n",
               "  - Note: Individual files must be < 384 KB to be searchable\n">>
        ELSE <<>>)
    \o (IF searchWorks /\ searchResultCount = 0
        THEN <<"- No Markdown Files: No .md files found in the default branch.\n">>
        ELSE <<>>)
    \o (IF searchWorks /\ isWithinSizeLimit(info)
        THEN <<"- All Systems Operational: Repository is properly configured and searchable!\n">>
        ELSE <<>>)

\* the diagnostic report; searchError is None when the test search worked
diagnosticOutput(info, searchWorks, searchError, searchResultCount) ==
    LET repoSizeGB == SizeGB(info.size)
    IN <<"# Repository Search Diagnostics\n\n", "- Repository: ">>
       \o config.owner \o <<"/">> \o config.repo
       \o <<"\n", "- Visibility: ", IF info.private THEN "Private" ELSE "Public",
            "\n", "- Size: ">> \o ToFixed(repoSizeGB, 3) \o <<" GB\n",
            "- Default Branch: ">> \o info.default_branch
       \o <<"\n\n", "## Search Capabilities\n", "- Search API Access: ",
            IF searchWorks THEN "Working" ELSE "Failed", "\n">>
       \o (IF searchWorks
           THEN <<"- Markdown Files Found: ", ToString(searchResultCount), "\n">>
           ELSE IF TruthyStr(searchError)
           THEN <<"- Error: ">> \o searchError[1] \o <<"\n">>
           ELSE <<>>)
       \o <<"- Within Size Limit: ">>
       \o (IF isWithinSizeLimit(info)
           THEN <<"Yes", " (">> \o ToFixed(repoSizeGB, 3)
                \o <<" GB < ", ToString(MAX_INDEXED_SIZE_GB), " GB)">>
           ELSE <<"No", " (">> \o ToFixed(repoSizeGB, 3)
                \o <<" GB > ", ToString(MAX_INDEXED_SIZE_GB), " GB)">>)
       \o <<"\n\n", "## Recommendations\n">>
       \o recommendations(info, searchWorks, searchResultCount)

diagnoseSearch ==
    /\ CanInvoke
    /\ LET req == Request(inv + 1, "repos.get", <<>>, None, None, None)
       IN /\ Enter("diagnoseSearch", NoArgs)
          /\ handleRequest(<<req>>, <<>>, inflight)
          /\ IF checkConfigThrows
             THEN pc' = "done" /\ outcome' = Report(diagnoseFailedText(checkConfigMessage))
             ELSE pc' = "diagnose_repo" /\ outcome' = NoOutcome

\* the repos.get call settles
diagnoseSearch_repo ==
    /\ pc = "diagnose_repo"
    /\ \E req \in inflight :
         /\ req.inv = inv /\ req.api = "repos.get"
         /\ \/ \E m \in RemoteMessages :
                 /\ Reply(req, Some(m)) /\ Settled(req)
                 /\ pc' = "done"
                 /\ outcome' = Report(diagnoseFailedText(handleRequestError(m)))
                 /\ UNCHANGED repoInfo
            \/ \E info \in RepoInfos :
                 LET testSearch == Request(inv, "search.code", BaselineQuery,
                                           None, Some(1), None)
                 IN /\ Reply(req, None)
                    /\ repoInfo' = info
                    /\ handleRequest(<<testSearch>>, sent, inflight \ {req})
                    /\ IF checkConfigThrows
                       THEN /\ pc' = "done"
                            /\ outcome' = Report(diagnosticOutput(
                                   info, FALSE, Some(checkConfigMessage), 0))
                       ELSE /\ pc' = "diagnose_search"
                            /\ outcome' = NoOutcome
    /\ UNCHANGED <<config, inv, tool, args, searchResults, diagRuns, diagnostics,
                   commits, detailed>>

\* the test search settles and the report is returned
diagnoseSearch_search ==
    /\ pc = "diagnose_search"
    /\ \E req \in inflight :
         /\ req.inv = inv /\ req.api = "search.code"
         /\ Settled(req)
         /\ pc' = "done"
         /\ \/ \E m \in RemoteMessages :
                 /\ Reply(req, Some(m))
                 /\ outcome' = Report(diagnosticOutput(
                        repoInfo, FALSE, Some(handleRequestError(m)), 0))
            \/ \E n \in 0..MaxMatches :
                 /\ Reply(req, None)
                 /\ outcome' = Report(diagnosticOutput(
                        repoInfo, TRUE, None,
                        SearchData(n, req.per_page[1]).total_count))
    /\ UNCHANGED <<config, inv, tool, args, Locals>>

----------------------------------------------------------------------------
(* The program *)

Init ==
    /\ config \in [githubToken : Tokens, owner : Owners, repo : Repos]
    /\ inv = 0
    /\ tool = "none"
    /\ args = NoArgs
    /\ pc = "idle"
    /\ inflight = {}
    /\ sent = <<>>
    /\ replies = <<>>
    /\ outcome = NoOutcome
    /\ searchResults = NoSearchResults
    /\ repoInfo = NoRepoInfo
    /\ diagRuns = 0
    /\ diagnostics = NoDiagnostics
    /\ commits = <<>>
    /\ detailed = <<>>

Next ==
    \/ getFileContents
    \/ getFileContents_getContent
    \/ searchFiles
    \/ searchFiles_search
    \/ runSearchDiagnostics_repo
    \/ runSearchDiagnostics_search
    \/ searchIssues
    \/ searchIssues_search
    \/ getCommitHistory
    \/ getCommitHistory_listCommits
    \/ getCommitHistory_getCommit
    \/ getCommitHistory_abandoned
    \/ searchCode
    \/ searchCode_search
    \/ diagnoseSearch
    \/ diagnoseSearch_repo
    \/ diagnoseSearch_search

Spec == Init /\ [][Next]_vars

\* the program under the assumption that request() settles: every call that
\* was dispatched is answered in the end, with data or with an error
FairSpec ==
    /\ Spec
    /\ WF_vars(getFileContents_getContent)
    /\ WF_vars(searchFiles_search)
    /\ WF_vars(runSearchDiagnostics_repo)
    /\ WF_vars(runSearchDiagnostics_search)
    /\ WF_vars(searchIssues_search)
    /\ WF_vars(getCommitHistory_listCommits)
    /\ WF_vars(getCommitHistory_getCommit)
    /\ WF_vars(getCommitHistory_abandoned)
    /\ WF_vars(searchCode_search)
    /\ WF_vars(diagnoseSearch_repo)
    /\ WF_vars(diagnoseSearch_search)

----------------------------------------------------------------------------
(* Vocabulary of the properties *)

\* at least one of credential, owner, repo is absent
ConfigIncomplete ==
    config.githubToken = <<>> \/ config.owner = <<>> \/ config.repo = <<>>

\* the invocation has ended
Done == pc = "done"

\* the kind of error a thrown message stands for, read off its fixed opening
ErrorKind(message) ==
    LET opening == IF message = <<>> THEN "" ELSE Head(message)
    IN CASE opening = Head(checkConfigMessage) -> "ConfigIncomplete"
         [] opening \in {"GitHub search query invalid: \"",
                         "GitHub code search query invalid: \""} -> "ValidationFailed"
         [] opening \in {"GitHub code search rate limit exceeded. Wait a moment and try again.",
                         "GitHub code search rate limit exceeded (10 requests/minute). Wait a moment and try again."}
              -> "RateLimited"
         [] opening = "GitHub API access denied. Check that your token has 'repo' scope for private repositories."
              -> "Forbidden"
         [] opening = "Received unexpected content format from GitHub API."
              -> "UnexpectedFormat"
         [] opening = "GitHub API error: " -> "Transport"
         [] OTHER -> "Unknown"

\* the kind the spec's classification gives to the message of a failed call
ClassOf(message) ==
    IF Includes(message, <<"validation failed">>) THEN "ValidationFailed"
    ELSE IF Includes(message, <<"rate limit">>) THEN "RateLimited"
    ELSE IF Includes(message, <<"Forbidden">>) \/ Includes(message, <<"401">>)
    THEN "Forbidden"
    ELSE "Transport"

\* the text has none of the substrings the search tools look for
Plain(text) == ClassOf(text) = "Transport"

\* the last answer of the remote to the current invocation
LastReply == replies[Len(replies)]

\* the current invocation is a searchFiles whose search has been answered
SearchAnswered ==
    tool = "searchFiles" /\ Len(replies) >= 1 /\ replies[1].error = None

\* a request is the basic search test of the diagnostics
IsBaseline(req) == req.api = "search.code" /\ req.q = BaselineQuery

----------------------------------------------------------------------------
(* C1: with an incomplete configuration no request is ever dispatched: in
   every state nothing has been sent and nothing is outstanding, whichever
   tool was called. *)
C1_NoDispatchWhenIncomplete ==
    ConfigIncomplete => (sent = <<>> /\ inflight = {} /\ replies = <<>>)

C1_Witness == ConfigIncomplete /\ Done /\ tool = "getCommitHistory"

(* C2 as stated: with an incomplete configuration every tool ends as a
   failing result of kind ConfigIncomplete. *)
C2_AlwaysFailsAsConfigIncomplete ==
    (ConfigIncomplete /\ Done) =>
        (outcome.status = "failure" /\ ErrorKind(outcome.text) = "ConfigIncomplete")

(* C2 amended: with an incomplete configuration nothing is dispatched;
   getFileContents, searchIssues and getCommitHistory fail with the
   configuration-incomplete error; searchFiles and searchCode fail, with that
   error whenever owner and repo hold none of the substrings their catch
   looks for; diagnoseSearch returns a report that carries the message. *)
C2_Amended ==
    (ConfigIncomplete /\ Done) =>
        /\ sent = <<>>
        /\ tool \in {"getFileContents", "searchIssues", "getCommitHistory"} =>
              /\ outcome.status = "failure"
              /\ ErrorKind(outcome.text) = "ConfigIncomplete"
        /\ tool \in {"searchFiles", "searchCode"} =>
              /\ outcome.status = "failure"
              /\ (Plain(config.owner) /\ Plain(config.repo)) =>
                    ErrorKind(outcome.text) = "ConfigIncomplete"
        /\ tool = "diagnoseSearch" =>
              /\ outcome.status = "report"
              /\ Includes(outcome.text, <<"Failed to diagnose repository: ">>
                                        \o checkConfigMessage)

C2_Witness ==
    /\ ConfigIncomplete /\ Done /\ tool = "diagnoseSearch"
    /\ outcome.status = "report"

(* C3: in searchFiles the diagnostics run exactly once when the search
   answered with totalCount = 0 and not at all otherwise, they start only
   after that answer, the original query is never sent again, and a
   non-empty result is followed by no further call. *)
C3_OneDiagnosticsRun ==
    tool = "searchFiles" =>
        /\ diagRuns = (IF SearchAnswered /\ searchResults.total_count = 0
                       THEN 1 ELSE 0)
        /\ \A i \in 2..Len(sent) : sent[i] # sent[1]
        /\ Len(sent) > 1 => (diagRuns = 1 /\ sent[2].api = "repos.get")
        /\ (SearchAnswered /\ searchResults.total_count > 0) =>
              (Done /\ Len(sent) = 1 /\ inflight \subseteq {r \in inflight : r.inv # inv})

C3_Witness ==
    /\ tool = "searchFiles" /\ Done /\ diagRuns = 1 /\ Len(sent) = 3
    /\ outcome.status = "report"

(* C4 as stated: whichever tool made the call, a failed call whose message
   is a rate-limit message is surfaced as RateLimited (and likewise for the
   other classes). *)
C4_GatewayClassifies ==
    (Done /\ outcome.status = "failure" /\ replies # <<>> /\ LastReply.error # None) =>
        ErrorKind(outcome.text) = ClassOf(LastReply.error[1])

(* C4 amended: every call goes through handleRequest, which surfaces a
   failure as "GitHub API error: <message>" without classifying it; only
   searchFiles and searchCode classify it afterwards (validation failed,
   then rate limit, then Forbidden/401, else unchanged).  A failure of the
   commit-list call, of a commit-detail call, of searchIssues or of
   getFileContents is surfaced as that generic error, a rate limit
   included. *)
C4_Amended ==
    (Done /\ outcome.status = "failure" /\ replies # <<>> /\ LastReply.error # None) =>
        /\ tool \in {"getFileContents", "searchIssues", "getCommitHistory"} =>
              /\ outcome.text = <<"GitHub API error: ">> \o LastReply.error[1]
              /\ ErrorKind(outcome.text) = "Transport"
        /\ tool \in {"searchFiles", "searchCode"} =>
              /\ ErrorKind(outcome.text) = ClassOf(LastReply.error[1])
              /\ ClassOf(LastReply.error[1]) = "Transport" =>
                    outcome.text = <<"GitHub API error: ">> \o LastReply.error[1]

C4_Witness ==
    /\ Done /\ tool = "getCommitHistory" /\ outcome.status = "failure"
    /\ Len(replies) >= 2
    /\ LastReply.req.api = "repos.getCommit"
    /\ LastReply.error # None /\ Includes(LastReply.error[1], <<"rate limit">>)
    /\ ErrorKind(outcome.text) = "Transport"

(* C5: in a diagnostics run the basic search is dispatched only after the
   repos.get call has been answered without error, and a failed repos.get
   ends the run with a diagnosis that carries diagnosticError and nothing
   else, the basic search never being dispatched. *)
C5_DiagnosticsInOrder ==
    tool = "searchFiles" =>
        /\ \A i \in 1..Len(sent) :
              (i > 1 /\ IsBaseline(sent[i])) =>
                  /\ i = 3 /\ sent[2].api = "repos.get"
                  /\ Len(replies) >= 2
                  /\ replies[2].req = sent[2] /\ replies[2].error = None
        /\ (Len(replies) >= 2 /\ replies[2].error # None) =>
              /\ Done /\ Len(sent) = 2
              /\ diagnostics.diagnosticError
                    = Some(<<"GitHub API error: ">> \o replies[2].error[1])
              /\ diagnostics.repoIndexed = None
              /\ outcome.status = "report"

C5_Witness ==
    /\ tool = "searchFiles" /\ Done /\ Len(replies) = 2
    /\ replies[2].req.api = "repos.get" /\ replies[2].error # None
    /\ diagnostics.diagnosticError # None

\* the current invocation ran the diagnostics and its basic search failed
BaselineThrew ==
    /\ tool = "searchFiles" /\ Len(replies) = 3
    /\ replies[2].error = None /\ replies[3].error # None

(* C6 as stated: when repos.get succeeds and the basic search throws, the
   diagnosis has isIndexed = false and diagnosticError populated. *)
C6_BaselineFailureReported ==
    BaselineThrew =>
        /\ diagnostics.repoIndexed = Some(FALSE)
        /\ diagnostics.diagnosticError # None

(* C6 amended: when repos.get succeeds and the basic search throws, the
   diagnosis has isIndexed = false, basicSearchWorks = false and a match
   count of 0, and diagnosticError stays absent: the failure is discarded
   and the report gives the not-indexed guidance. *)
C6_Amended ==
    BaselineThrew =>
        /\ diagnostics.repoIndexed = Some(FALSE)
        /\ diagnostics.basicSearchWorks = Some(FALSE)
        /\ diagnostics.filesFound = Some(0)
        /\ diagnostics.diagnosticError = None
        /\ Done /\ outcome.status = "report"
        /\ Includes(outcome.text, <<"Repository May Not Be Indexed">>)
        /\ ~Includes(outcome.text, replies[3].error[1])

C6_Witness ==
    /\ BaselineThrew /\ Done
    /\ Includes(replies[3].error[1], <<"rate limit">>)
    /\ diagnostics.repoIndexed = Some(FALSE)

(* C7: every diagnosis made after a successful repos.get has
   isIndexed = (baselineSearchWorked and baselineMatchCount > 0), the basic
   search having worked exactly when it was answered without error. *)
C7_IndexedIffWorkedAndFound ==
    (tool = "searchFiles" /\ Done /\ Len(replies) = 3) =>
        /\ diagnostics.repoIndexed # None
        /\ diagnostics.basicSearchWorks = Some(replies[3].error = None)
        /\ diagnostics.repoIndexed[1]
              = (diagnostics.basicSearchWorks[1] /\ diagnostics.filesFound[1] > 0)

C7_Witness ==
    /\ tool = "searchFiles" /\ Done /\ Len(replies) = 3
    /\ diagnostics.basicSearchWorks = Some(TRUE)
    /\ diagnostics.filesFound = Some(0)
    /\ diagnostics.repoIndexed = Some(FALSE)

(* C8: the zero-result diagnostics and diagnoseSearch both take the
   repository as oversized exactly when its size is above 52,428,800 KB
   (50 GB): diagnoseSearch prints "Within Size Limit: No" and the large
   repository advice exactly then, and "Yes" otherwise, 50 GB included. *)
C8_OversizedAbove50GB ==
    /\ (tool = "searchFiles" /\ diagnostics.isLarge # None) =>
          diagnostics.isLarge[1] = (repoInfo.size > 52428800)
    /\ (tool = "diagnoseSearch" /\ Done /\ Len(replies) = 2) =>
          /\ Includes(outcome.text, <<"- Within Size Limit: ", "No">>)
                = (repoInfo.size > 52428800)
          /\ Includes(outcome.text, <<"- Within Size Limit: ", "Yes">>)
                = (repoInfo.size <= 52428800)
          /\ Includes(outcome.text,
                      <<"  - Using file path navigation instead of search for specific files\n">>)
                = (repoInfo.size > 52428800)

C8_Witness ==
    /\ tool = "diagnoseSearch" /\ Done /\ Len(replies) = 2
    /\ repoInfo.size = 52428800
    /\ Includes(outcome.text, <<"- Within Size Limit: ", "Yes">>)

\* the report of a getCommitHistory that fetched the diffs
DiffReport ==
    /\ tool = "getCommitHistory" /\ Done /\ args.includeDiffs
    /\ outcome.status = "report" /\ commits # <<>>

\* the diff shown for a patch is the patch itself
ShownInFull(patch, shown) ==
    /\ shown = Some(patch)
    /\ \A k \in 1..Len(patch) : patch[k] # TruncationMarker

\* the diff shown for a patch is its first maxPatchLength characters and
\* then the truncation marker
ShownTruncated(patch, shown) ==
    /\ shown # None /\ Len(shown[1]) >= 2
    /\ LET text == shown[1]
           kept == SubSeq(text, 1, Len(text) - 1)
       IN /\ text[Len(text)] = TruncationMarker
          /\ RunsLen(kept) = 8000
          /\ \A j \in 1..8000 : RunsCharAt(kept, j) = RunsCharAt(patch, j)

(* C9: with includeDiffs, a non-empty patch of length L is shown in full
   and without the truncation marker when L <= 8000, and as its first 8000
   characters followed by the marker when L > 8000. *)
C9_PatchTruncation ==
    DiffReport =>
        \A i \in 1..Len(outcome.blocks) :
            \A k \in 1..Len(detailed[i][1].files) :
                LET patch == detailed[i][1].files[k].patch
                    shown == outcome.blocks[i].diffs[k].diff
                IN (patch # None /\ patch[1] # <<>>) =>
                      IF RunsLen(patch[1]) <= 8000
                      THEN ShownInFull(patch[1], shown)
                      ELSE ShownTruncated(patch[1], shown)

C9_Witness ==
    /\ DiffReport /\ Len(outcome.blocks) = 2
    /\ \E i, j \in 1..2 :
          /\ Len(detailed[i][1].files) = 1 /\ Len(detailed[j][1].files) = 1
          /\ detailed[i][1].files[1].patch # None
          /\ detailed[j][1].files[1].patch # None
          /\ RunsLen(detailed[i][1].files[1].patch[1]) = 8000
          /\ outcome.blocks[i].diffs[1].diff = detailed[i][1].files[1].patch
          /\ RunsLen(detailed[j][1].files[1].patch[1]) = 8001
          /\ outcome.blocks[j].diffs[1].diff # None
          /\ RunsLen(outcome.blocks[j].diffs[1].diff[1]) = 8001

(* C10: with includeDiffs, once one getCommit call has failed the
   invocation has ended as a failure that delivers no commit block, whatever
   the other calls did before or do after. *)
C10_AnyDetailFailureFailsAll ==
    (tool = "getCommitHistory"
     /\ \E j \in 1..Len(replies) :
           replies[j].req.api = "repos.getCommit" /\ replies[j].error # None) =>
        /\ Done
        /\ outcome.status = "failure"
        /\ outcome.blocks = <<>>

C10_Witness ==
    /\ tool = "getCommitHistory" /\ Done /\ outcome.status = "failure"
    /\ Len(detailed) = 2
    /\ \E i \in 1..2 : detailed[i] # None
    /\ LastReply.req.api = "repos.getCommit" /\ LastReply.error # None

\* a request, or the answer to one, is about a getCommit call
IsDetail(req) == req.api = "repos.getCommit"

\* the getCommit calls of the current invocation and the answers to them
DetailCalls == SelectSeq(sent, IsDetail)
DetailAnswers == SelectSeq(replies, LAMBDA a : IsDetail(a.req))

\* the getCommit calls of the current invocation that are still outstanding
DetailsOutstanding == {req \in inflight : req.inv = inv /\ IsDetail(req)}

(* C11: with includeDiffs, in whatever order the getCommit calls complete,
   the report has one block per listed commit and block i is built from the
   detail of commit i of the list that listCommits returned. *)
C11_BlocksInListOrder ==
    DiffReport =>
        /\ Len(outcome.blocks) = Len(commits)
        /\ \A i \in 1..Len(outcome.blocks) :
              /\ detailed[i] # None
              /\ detailed[i][1].sha = commits[i].sha
              /\ outcome.blocks[i] = detailedBlock(detailed[i][1])
              /\ outcome.blocks[i].sha = commits[i].sha

\* the calls completed in the reverse of the list order
C11_Witness ==
    /\ DiffReport /\ Len(commits) = 2 /\ Len(replies) = 3
    /\ replies[2].req.ref = commits[2].sha
    /\ replies[3].req.ref = commits[1].sha
    /\ outcome.blocks[1].sha = commits[1].sha

(* C12: with includeDiffs and n commits listed, the n getCommit calls are
   all dispatched before any of them is answered (every answer arrives when
   all n have been dispatched, and none is dispatched after an answer), and
   a report exists only when all n have been answered without error; until
   then the invocation has delivered nothing. *)
C12_AllDispatchedThenJoined ==
    (tool = "getCommitHistory" /\ args.includeDiffs) =>
        /\ Len(DetailCalls) \in {0, Len(commits)}
        /\ \A j \in 1..Len(DetailAnswers) :
              DetailAnswers[j].at = 1 + Len(commits)
        /\ pc = "getCommit" =>
              /\ Len(DetailCalls) = Len(commits)
              /\ DetailsOutstanding # {}
              /\ outcome = NoOutcome
        /\ (outcome.status = "report" /\ commits # <<>>) =>
              /\ Len(DetailAnswers) = Len(commits)
              /\ \A j \in 1..Len(DetailAnswers) : DetailAnswers[j].error = None
              /\ DetailsOutstanding = {}

\* both getCommit calls are outstanding and neither has been answered
C12_Witness ==
    /\ tool = "getCommitHistory" /\ args.includeDiffs /\ pc = "getCommit"
    /\ Len(commits) = 2 /\ Cardinality(DetailsOutstanding) = 2
    /\ DetailAnswers = <<>>

(* C13: for a list of n >= 1 commits (n <= maxCommits) the report has
   exactly n blocks; without includeDiffs the list call is the only call and
   no block has a file or diff section; with includeDiffs there are exactly
   n getCommit calls besides the list call, the i-th for the sha of the i-th
   listed commit. *)
C13_OneBlockPerCommit ==
    (tool = "getCommitHistory" /\ Done /\ outcome.status = "report"
     /\ Len(commits) >= 1) =>
        /\ Len(commits) <= args.maxCommits
        /\ Len(outcome.blocks) = Len(commits)
        /\ sent[1].api = "repos.listCommits"
        /\ ~args.includeDiffs =>
              /\ Len(sent) = 1 /\ Len(replies) = 1
              /\ \A i \in 1..Len(outcome.blocks) :
                    /\ outcome.blocks[i].sha = commits[i].sha
                    /\ outcome.blocks[i].files = <<>>
                    /\ outcome.blocks[i].diffs = <<>>
                    /\ outcome.blocks[i].note = <<>>
        /\ args.includeDiffs =>
              /\ Len(sent) = 1 + Len(commits)
              /\ \A i \in 1..Len(commits) :
                    /\ IsDetail(sent[1 + i])
                    /\ sent[1 + i].ref = commits[i].sha

C13_Witness ==
    /\ tool = "getCommitHistory" /\ Done /\ outcome.status = "report"
    /\ ~args.includeDiffs /\ args.maxCommits = 2 /\ Len(commits) = 2
    /\ Len(outcome.blocks) = 2 /\ Len(sent) = 1

(* C14: when listCommits answers with no commit, the invocation ends with a
   non-empty report saying that no commits were found in the window; it
   makes no getCommit call, includeDiffs or not, and it does not fail. *)
C14_EmptyListReported ==
    (tool = "getCommitHistory" /\ Len(replies) >= 1 /\ replies[1].error = None
     /\ commits = <<>>) =>
        /\ Done
        /\ outcome.status = "report"
        /\ outcome.text # <<>>
        /\ Head(outcome.text) = "No commits found in the last "
        /\ outcome.blocks = <<>>
        /\ Len(sent) = 1 /\ DetailCalls = <<>> /\ DetailsOutstanding = {}

C14_Witness ==
    /\ tool = "getCommitHistory" /\ args.includeDiffs /\ Done
    /\ Len(replies) = 1 /\ replies[1].error = None /\ commits = <<>>
    /\ outcome.status = "report"

\* the number of places at which atom a stands in text s
Count(s, a) == Cardinality({i \in 1..Len(s) : s[i] = a})

\* the atoms that are whitespace characters
WhitespaceAtoms == {" ", "\t"}
HasWhitespace(s) == \E i \in 1..Len(s) : s[i] \in WhitespaceAtoms

\* the atoms that are search qualifiers (for repo: and filename: the value
\* follows in the next atoms)
QualifierAtoms ==
    {"repo:", "filename:", "in:path", "in:file,path", "path:*.md", "extension:md"}
QualifierCount(s) == Cardinality({i \in 1..Len(s) : s[i] \in QualifierAtoms})

\* the qualifier that stands for a search mode; content has none
ModeQualifier(searchIn) ==
    CASE searchIn = "filename" -> "filename:"
      [] searchIn = "path" -> "in:path"
      [] OTHER -> "in:file,path"

\* the search string that the current searchFiles invocation dispatched
Dispatched == tool = "searchFiles" /\ sent # <<>>
BuiltQuery == sent[1].q

(* C15: in filename mode the query is put in double quotes in the built
   search string exactly when it contains a whitespace character (a space,
   a tab or another one), and is left as it is otherwise. *)
C15_QuotedIffWhitespace ==
    (Dispatched /\ args.searchIn = "filename") =>
        BuiltQuery =
            <<"filename:">>
            \o (IF HasWhitespace(args.query)
                THEN <<"\"">> \o args.query \o <<"\"">>
                ELSE args.query)
            \o <<" ">> \o repoQualifier

(* C16 as stated: for every mode and every query, qualifier tokens in the
   query included, the built search string holds repo:owner/repo exactly
   once and the qualifier of the mode exactly once, and in content mode no
   qualifier but the repository scope. *)
C16_ExactlyOnce ==
    Dispatched =>
        /\ Count(BuiltQuery, "repo:") = 1
        /\ Includes(BuiltQuery, repoQualifier)
        /\ args.searchIn # "content" =>
              Count(BuiltQuery, ModeQualifier(args.searchIn)) = 1
        /\ args.searchIn = "content" => QualifierCount(BuiltQuery) = 1

(* C16 amended: the built search string is the query as given plus exactly
   one repo:owner/repo, which ends the string, and exactly one qualifier of
   the mode (none in content mode); qualifiers written in the query are
   passed through and come on top.  For a query without qualifier tokens,
   the empty query included, the scope and the mode qualifier each stand
   exactly once and content mode holds no other qualifier. *)
C16_Amended ==
    Dispatched =>
        LET q == BuiltQuery
            query == args.query
            mode == ModeQualifier(args.searchIn)
            scope == repoQualifier
        IN /\ Includes(q, query)
           /\ SubSeq(q, Len(q) - Len(scope) + 1, Len(q)) = scope
           /\ Count(q, "repo:") = Count(query, "repo:") + 1
           /\ args.searchIn # "content" => Count(q, mode) = Count(query, mode) + 1
           /\ QualifierCount(q)
                 = QualifierCount(query) + (IF args.searchIn = "content" THEN 1 ELSE 2)
           /\ QualifierCount(query) = 0 =>
                 /\ Count(q, "repo:") = 1
                 /\ args.searchIn # "content" => Count(q, mode) = 1
                 /\ args.searchIn = "content" => QualifierCount(q) = 1

\* content mode, with the query of the README that has two qualifiers
C16_Witness ==
    /\ Dispatched /\ args.searchIn = "content"
    /\ args.query = <<"path:*.md", " ", "extension:md">>
    /\ QualifierCount(BuiltQuery) = 3

\* a request is one of the two calls of runSearchDiagnostics
IsDiagnosticsSubCall(req) ==
    tool = "searchFiles" /\ (req.api = "repos.get" \/ IsBaseline(req))

\* the answers that carry the failure of a call that is no diagnostics sub-call
FailedCalls ==
    {j \in 1..Len(replies) :
        replies[j].error # None /\ ~IsDiagnosticsSubCall(replies[j].req)}

\* no call of the invocation is made twice
NoCallTwice == \A i, j \in 1..Len(sent) : i < j => sent[i] # sent[j]

(* C17 as stated: no call is made again, and in every operation the failure
   of a call that is not a diagnostics sub-call ends the invocation as a
   failing result, no further call being dispatched after it. *)
C17_EveryFailureFails ==
    /\ NoCallTwice
    /\ \A j \in FailedCalls :
          /\ Done /\ outcome.status = "failure"
          /\ Len(sent) = replies[j].at

(* C17 amended: no call is made again and after the failure of a call that
   is not a sub-call of runSearchDiagnostics no further call is dispatched
   and the invocation has ended: as a failing result in getFileContents,
   searchFiles, searchIssues, searchCode and getCommitHistory, and as a
   returned report in diagnoseSearch, which never fails: a failed repos.get
   gives the report "Failed to diagnose repository: <message>" and a failed
   test search is written into the diagnostic report. *)
C17_Amended ==
    /\ NoCallTwice
    /\ \A j \in FailedCalls :
          LET failed == replies[j]
              message == <<"GitHub API error: ">> \o failed.error[1]
          IN /\ j = Len(replies)
             /\ Done
             /\ Len(sent) = failed.at
             /\ tool # "diagnoseSearch" => outcome.status = "failure"
             /\ tool = "diagnoseSearch" =>
                   /\ outcome.status = "report"
                   /\ failed.req.api = "repos.get" =>
                         outcome.text = diagnoseFailedText(message)
                   /\ failed.req.api = "search.code" =>
                         Includes(outcome.text,
                                  <<"- Search API Access: ", "Failed", "\n",
                                    "- Error: ">> \o message)
    /\ tool = "diagnoseSearch" => outcome.status # "failure"

\* the search of searchFiles failed: a failing result and no diagnostics
C17_Witness ==
    /\ tool = "searchFiles" /\ Done /\ outcome.status = "failure"
    /\ Len(replies) = 1 /\ replies[1].error # None
    /\ Len(sent) = 1 /\ diagRuns = 0

(* C18: a searchFiles whose search answered with totalCount = 0 never ends
   as a failure: it ends with a report when repos.get fails, when repos.get
   succeeds and the basic search fails, and when both succeed. *)
C18_ZeroResultsNeverFail ==
    (SearchAnswered /\ searchResults.total_count = 0) =>
        /\ outcome.status # "failure"
        /\ Done => (outcome.status = "report" /\ outcome.text # <<>>)
        /\ (Len(replies) >= 2 /\ replies[2].error # None) => Done
        /\ Len(replies) = 3 => Done
        /\ Len(replies) <= 3

\* repos.get failed after a search without results
C18_Witness ==
    /\ SearchAnswered /\ searchResults.total_count = 0 /\ Done
    /\ Len(replies) = 2 /\ replies[2].error = Some(<<"Not Found">>)
    /\ outcome.status = "report"

\* the openings of the three guidance sections
ErrorSection == "Search System Issue: "
NotIndexedSection == "Repository May Not Be Indexed"
NoMatchSection == "Search Debug Info:\n"
GuidanceSections == {ErrorSection, NotIndexedSection, NoMatchSection}

(* C19: the zero-result report of searchFiles holds exactly one guidance
   section: the infrastructure-error section if the diagnosis carries
   diagnosticError, else the not-indexed section if isIndexed is not true,
   else the indexed-but-no-match section. *)
C19_OneSectionByPriority ==
    (tool = "searchFiles" /\ Done /\ diagRuns = 1) =>
        LET shown == {m \in GuidanceSections : Count(outcome.text, m) > 0}
            due == IF diagnostics.diagnosticError # None THEN ErrorSection
                   ELSE IF diagnostics.repoIndexed # Some(TRUE)
                   THEN NotIndexedSection
                   ELSE NoMatchSection
        IN /\ shown = {due}
           /\ Count(outcome.text, due) = 1

\* an indexed repository in which the query matched nothing
C19_Witness ==
    /\ tool = "searchFiles" /\ Done /\ diagRuns = 1
    /\ diagnostics.diagnosticError = None
    /\ diagnostics.repoIndexed = Some(TRUE)
    /\ Count(outcome.text, NoMatchSection) = 1
    /\ Count(outcome.text, NotIndexedSection) = 0

(* C20: every search.code request that searchFiles or searchCode dispatches
   carries a per-page value that is a positive integer of at most 100 and a
   page index that is not negative. *)
C20_PageSizeWithinLimit ==
    tool \in {"searchFiles", "searchCode"} =>
        \A i \in 1..Len(sent) :
            sent[i].api = "search.code" =>
                /\ sent[i].per_page # None
                /\ sent[i].per_page[1] \in 1..100
                /\ sent[i].page # None => sent[i].page[1] >= 0

\* what a getCommitHistory invocation that was given author a, the other
\* arguments and the answers of the remote being those of the current one,
\* has dispatched when the current one has dispatched sent
TwinSent(a) ==
    IF sent = <<>> THEN <<>>
    ELSE <<listCommitsRequest(inv, args.days, a, args.maxCommits, args.page)>>
         \o (IF Len(sent) > 1
             THEN detailRequests(Slice(commits, args.maxCommits))
             ELSE <<>>)

\* the atoms with which a report mentions the author argument
AuthorMention == {" from ", " from author ", "alice"}
WithoutAuthorMention(text) == SelectSeq(text, LAMBDA x : x \notin AuthorMention)

(* C21: the author argument of getCommitHistory has no effect on what is
   fetched: whatever author is given, the invocation dispatches the calls
   that the invocation without author (or with any other author) dispatches,
   it renders the same commit blocks, none of which mentions the argument,
   and its report text differs from the other's by the author mention
   alone. *)
C21_AuthorIgnored ==
    tool = "getCommitHistory" =>
        /\ \A a \in Authors : sent = TwinSent(a)
        /\ \A i \in 1..Len(outcome.blocks) :
              /\ ~Includes(outcome.blocks[i].heading, <<"alice">>)
              /\ outcome.blocks[i].sha = commits[i].sha
        /\ (Done /\ outcome.status = "report") =>
              WithoutAuthorMention(outcome.text)
                 = (IF commits = <<>>
                    THEN noCommitsText(args.days, None)
                    ELSE historyHeader(Len(commits), args.days, None))
        /\ (Done /\ outcome.status = "failure") =>
              WithoutAuthorMention(outcome.text) = outcome.text

\* an author was given, the diffs were fetched and the header names the author
C21_Witness ==
    /\ tool = "getCommitHistory" /\ Done /\ outcome.status = "report"
    /\ args.author = Some(<<"alice">>) /\ args.includeDiffs
    /\ Len(commits) = 2 /\ Len(sent) = 3
    /\ Includes(outcome.text, <<" from ", "alice">>)

\* the invocation has started and has not ended: its handler is suspended
Pending == pc \notin {"idle", "done"}

\* the calls of the current invocation that have not been answered
Outstanding == {req \in inflight : req.inv = inv}

\* the invocation failed because a getCommit call failed
DetailFailed ==
    /\ tool = "getCommitHistory" /\ outcome.status = "failure"
    /\ replies # <<>> /\ IsDetail(LastReply.req) /\ LastReply.error # None

(* C22 as stated: if every dispatched call responds in the end, every
   invocation completes in the end; and an invocation of which one call
   never responds never completes, that is, an invocation that has
   completed has no call left unanswered. *)
C22_CompletesIffAllRespond ==
    /\ Pending ~> Done
    /\ [](Done => Outstanding = {})

(* C22 amended: if every dispatched call responds in the end, every
   invocation completes in the end.  There is no timeout or cancellation: a
   suspended invocation waits for a call that is outstanding and moves on
   only by the answer to such a call, so it never completes while the call
   it waits for does not respond; the one exception is getCommitHistory with
   includeDiffs, which ends as a failure as soon as one getCommit call fails
   although other getCommit calls have not responded.  The configuration,
   the only state that invocations share, never changes. *)
C22_Amended ==
    /\ Pending ~> Done
    /\ [](Pending => (Outstanding # {} /\ outcome = NoOutcome))
    /\ [](Done => (Outstanding = {}
                   \/ (DetailFailed /\ \A req \in Outstanding : IsDetail(req))))
    /\ [][(Pending /\ pc' # pc) =>
             /\ Len(replies') = Len(replies) + 1
             /\ replies'[Len(replies')].req \in Outstanding]_vars
    /\ [][config' = config]_vars

\* a getCommit call failed while the other one had not responded
C22_Witness ==
    /\ Done /\ DetailFailed /\ Len(commits) = 2
    /\ Cardinality(Outstanding) = 1 /\ Len(replies) = 2

\* the three match reasons, and the reasons of a result list in its order
MatchReasons == {"filename match", "path match", "content match"}
ReasonsShown == SelectSeq(outcome.text, LAMBDA x : x \in MatchReasons)

\* the query occurs in the text when letter case is ignored: some run of the
\* text differs from the query in letter case at most
OccursIgnoringCase(text, query) ==
    \E i \in 0..(Len(text) - Len(query)) :
        \A k \in 1..Len(query) :
            LowerAtom(text[i + k]) = LowerAtom(query[k])

\* the current invocation is a searchFiles that returned a list of matches
MatchesListed ==
    /\ tool = "searchFiles" /\ Done /\ outcome.status = "report"
    /\ searchResults.total_count > 0

(* C23: in the result list of searchFiles every item has exactly one match
   reason: the mode for the modes filename, path and content; for the mode
   all, filename match if the query occurs in the name of the item, letter
   case ignored, else path match if it occurs in its path, else content
   match; the empty query occurs in every name. *)
C23_MatchReason ==
    MatchesListed =>
        /\ Len(ReasonsShown) = Len(searchResults.items)
        /\ \A k \in 1..Len(searchResults.items) :
              LET item == searchResults.items[k]
              IN ReasonsShown[k] =
                    IF args.searchIn # "all"
                    THEN CASE args.searchIn = "filename" -> "filename match"
                           [] args.searchIn = "path" -> "path match"
                           [] args.searchIn = "content" -> "content match"
                    ELSE IF OccursIgnoringCase(item.name, args.query)
                         THEN "filename match"
                    ELSE IF OccursIgnoringCase(item.path, args.query)
                         THEN "path match"
                    ELSE "content match"
        /\ (args.searchIn = "all" /\ args.query = <<>>) =>
              \A k \in 1..Len(ReasonsShown) : ReasonsShown[k] = "filename match"

\* mode all: the query notes is found in the name Notes.md and in neither the
\* name nor the path of the second item
C23_Witness ==
    /\ MatchesListed /\ args.searchIn = "all" /\ args.query = <<"notes">>
    /\ Len(searchResults.items) = 2
    /\ ReasonsShown = <<"filename match", "content match">>

\* the current invocation is a searchFiles or a searchCode that failed
SearchFailed ==
    /\ tool \in {"searchFiles", "searchCode"}
    /\ Done /\ outcome.status = "failure"

\* the message of the error that the catch of the search tool caught: that of
\* checkConfig, or that of handleRequest for the failed call
Caught ==
    IF replies = <<>> THEN checkConfigMessage
    ELSE <<"GitHub API error: ">> \o replies[1].error[1]

\* the first of the three kinds, in the order of the claim, whose text the
\* message holds; Unchanged when it holds none
FirstKind(message) ==
    LET order == <<[kind |-> "ValidationFailed", texts |-> {"validation failed"}],
                   [kind |-> "RateLimited", texts |-> {"rate limit"}],
                   [kind |-> "Forbidden", texts |-> {"Forbidden", "401"}]>>
        hits == {n \in 1..3 : \E t \in order[n].texts : Includes(message, <<t>>)}
    IN IF hits = {} THEN "Unchanged"
       ELSE order[CHOOSE n \in hits : \A other \in hits : n <= other].kind

\* the number of the three kinds whose text the message holds
KindsMatched(message) ==
    Cardinality({t \in {"validation failed", "rate limit"} : Includes(message, <<t>>)})
    + (IF Includes(message, <<"Forbidden">>) \/ Includes(message, <<"401">>)
       THEN 1 ELSE 0)

(* C24: in searchFiles and searchCode the kind of the surfaced error is
   decided by the caught message alone, in a fixed order: ValidationFailed
   if it holds "validation failed", else RateLimited if it holds "rate
   limit", else Forbidden if it holds "Forbidden" or "401", else the caught
   error is rethrown unchanged; a message that holds several of the texts
   gets the first kind, and the catch of either tool gives the message the
   same kind. *)
C24_ClassifiedInOrder ==
    SearchFailed =>
        LET kind == FirstKind(Caught)
            byFiles == searchFilesCatch(Caught, <<>>)
            byCode == searchCodeCatch(Caught, <<>>)
        IN /\ kind = "Unchanged" =>
                 (outcome.text = Caught /\ byFiles = Caught /\ byCode = Caught)
           /\ kind # "Unchanged" =>
                 /\ ErrorKind(outcome.text) = kind
                 /\ ErrorKind(byFiles) = kind
                 /\ ErrorKind(byCode) = kind

\* a message that holds all three texts is surfaced as ValidationFailed
C24_Witness ==
    /\ SearchFailed /\ tool = "searchCode" /\ Len(replies) = 1
    /\ KindsMatched(Caught) = 3
    /\ ErrorKind(outcome.text) = "ValidationFailed"

(* C25: a configuration-incomplete failure raised inside searchFiles or
   searchCode is surfaced as the configuration-incomplete error whatever
   the owner and repo texts are: it is never rewritten into a
   ValidationFailed, RateLimited or Forbidden error. *)
C25_ConfigErrorKept ==
    (SearchFailed /\ ConfigIncomplete) =>
        /\ ErrorKind(outcome.text) = "ConfigIncomplete"
        /\ outcome.text = checkConfigMessage

\* the current invocation is a searchCode that returned a list of matches
CodeListed ==
    /\ tool = "searchCode" /\ Done /\ outcome.status = "report"
    /\ searchResults.total_count > 0

\* the page size that was sent to the remote
SentPageSize == sent[1].per_page[1]

\* the report advises to ask for the next page
NextPageHint ==
    Includes(outcome.text,
             <<"- Use page: ", ToString(args.page + 1), " to see more results\n">>)

(* C26: in searchCode with a non-zero result the page count shown and the
   next-page hint agree with the page size that was sent to the remote,
   min(perPage, 100): the hint is given exactly when results remain beyond
   the current page at that size, and the page line is shown, with the page
   count at that size, exactly when there is more than one page. *)
C26_PagesMatchSentSize ==
    CodeListed =>
        LET total == searchResults.total_count
            pages == CeilDiv(total, SentPageSize)
        IN /\ SentPageSize = Min(args.perPage, 100)
           /\ NextPageHint <=> total > args.page * SentPageSize
           /\ Includes(outcome.text, <<"Showing page ">>) <=> pages > 1
           /\ pages > 1 =>
                 Includes(outcome.text,
                          <<"Showing page ", ToString(args.page), " of ",
                            ToString(pages), " (">>)

\* the current invocation is a diagnoseSearch that made both of its calls
Diagnosed ==
    /\ tool = "diagnoseSearch" /\ Done /\ Len(replies) = 2
    /\ outcome.status = "report"

NoMarkdownFiles ==
    Includes(outcome.text,
             <<"- No Markdown Files: No .md files found in the default branch.\n">>)
AllSystemsOperational ==
    Includes(outcome.text,
             <<"- All Systems Operational: Repository is properly configured and searchable!\n">>)

(* C27: a diagnoseSearch report never holds both the No Markdown Files and
   the All Systems Operational recommendation: All Systems Operational is
   given only when the test search succeeded with at least one match and
   the repository is within the size limit. *)
C27_NeverBothRecommendations ==
    Diagnosed =>
        /\ ~(NoMarkdownFiles /\ AllSystemsOperational)
        /\ AllSystemsOperational =>
              /\ replies[2].error = None
              /\ Includes(outcome.text, <<"- Markdown Files Found: ">>)
              /\ ~Includes(outcome.text, <<"- Markdown Files Found: ", "0">>)
              /\ repoInfo.size <= MAX_INDEXED_SIZE_GB * KBPerGB

====
